---- MODULE Spec2Model ----
(***************************************************************************)
(* Model of app.py, the Streamlit dashboard over                           *)
(* final_nubank_fraud_output.csv.  One behaviour is a sequence of render   *)
(* cycles (script runs); one action is one block of the script.            *)
(*                                                                         *)
(* Text is a tuple of one-character strings (<<" ", "A">> is " A"), so     *)
(* that str.strip, str.upper and str() are computed character by           *)
(* character.  A parsed cell is a record [k, s, n]: k is the pandas kind   *)
(* ("str", "int", "float", "nan"), s the text of a "str" cell, n the       *)
(* number of an "int" or "float" cell (floats of the model are whole).     *)
(***************************************************************************)
EXTENDS Naturals, Integers, Sequences, FiniteSets, TLC

\* ------------------------------------------------------------------ bounds
\* Longest dataset built out of RowPool.
MaxRows == 3

\* ------------------------------------------------------- program constants
\* app.py:164, .sample(min(1000, len(df))).
SampleSize == 1000

\* app.py:35-44.
required_cols ==
    << "is_fraud", "final_moe_score", "fraud_risk_level", "lstm_score",
       "transformer_score", "autoencoder_score", "xgb_score", "ada_score" >>

\* ------------------------------------------------------------------- text
Range(s) == { s[i] : i \in DOMAIN s }

Digits == << "0", "1", "2", "3", "4", "5", "6", "7", "8", "9" >>

IsDigit(c) == c \in Range(Digits)

DigitVal(c) == (CHOOSE i \in DOMAIN Digits : Digits[i] = c) - 1

IsSpace(c) == c = " "

\* The value of a non-empty text of digits.
RECURSIVE TextToNat(_)
TextToNat(t) ==
    IF Len(t) = 0 THEN 0
    ELSE 10 * TextToNat(SubSeq(t, 1, Len(t) - 1)) + DigitVal(t[Len(t)])

\* Python's str(n) of a natural number.
RECURSIVE NatToText(_)
NatToText(n) ==
    IF n < 10 THEN << Digits[n + 1] >>
    ELSE NatToText(n \div 10) \o << Digits[(n % 10) + 1] >>

\* str.strip(): the text without its leading and trailing whitespace.
Strip(t) ==
    LET keep == { i \in DOMAIN t : ~IsSpace(t[i]) }
    IN  IF keep = {} THEN << >>
        ELSE LET lo == CHOOSE i \in keep : \A j \in keep : i <= j
                 hi == CHOOSE i \in keep : \A j \in keep : j <= i
             IN  SubSeq(t, lo, hi)

Lower == << "a", "d", "e", "g", "h", "i", "l", "m", "n", "o", "u", "w" >>
Upper == << "A", "D", "E", "G", "H", "I", "L", "M", "N", "O", "U", "W" >>

UpperChar(c) ==
    IF c \in Range(Lower)
    THEN Upper[CHOOSE i \in DOMAIN Lower : Lower[i] = c]
    ELSE c

\* str.upper().
ToUpper(t) == [ i \in DOMAIN t |-> UpperChar(t[i]) ]

\* ------------------------------------------------------------------ cells
StrCell(t)   == [ k |-> "str",   s |-> t,     n |-> 0 ]
IntCell(v)   == [ k |-> "int",   s |-> << >>, n |-> v ]
FloatCell(v) == [ k |-> "float", s |-> << >>, n |-> v ]
NaN          == [ k |-> "nan",   s |-> << >>, n |-> 0 ]

\* Python's str(x) of a cell: what Series.astype(str) and str(txn[...]) give.
ToStr(c) ==
    CASE c.k = "str"   -> c.s
      [] c.k = "int"   -> NatToText(c.n)
      [] c.k = "float" -> NatToText(c.n) \o << ".", "0" >>
      [] c.k = "nan"   -> << "n", "a", "n" >>

\* ---------------------------------------------------------- the CSV file
\* The source file is Absent or a table of text: header, a sequence of
\* column names, and rows, a sequence of functions from column name to the
\* text of the cell ("" for an empty cell).
Absent == [ header |-> << "(absent)" >>, rows |-> << >> ]

IsIntText(t) == Len(t) > 0 /\ \A i \in DOMAIN t : IsDigit(t[i])

\* pandas reads an empty cell, and the default na_values spelled here, as NaN.
NAValues == { << >>, << "N", "A" >>, << "n", "a", "n" >>, << "N", "a", "N" >> }

IsNA(t) == t \in NAValues

\* The dtype pd.read_csv infers for column c of table f.
ColKind(f, c) ==
    LET cells == { f.rows[i][c] : i \in DOMAIN f.rows }
        given == { t \in cells : ~IsNA(t) }
    IN  IF \A t \in given : IsIntText(t)
        THEN IF given = cells /\ cells # {} THEN "int" ELSE "float"
        ELSE "str"

ParseCell(kind, t) ==
    IF IsNA(t) THEN NaN
    ELSE CASE kind = "int"   -> IntCell(TextToNat(t))
           [] kind = "float" -> FloatCell(TextToNat(t))
           [] kind = "str"   -> StrCell(t)

\* app.py:30, df = pd.read_csv(CSV_FILE): the columns in header order, the
\* rows in file order under a RangeIndex (row i of the model has label i-1).
ReadCsv(f) ==
    LET kinds   == { << c, ColKind(f, c) >> : c \in Range(f.header) }
        kind(c) == (CHOOSE p \in kinds : p[1] = c)[2]
    IN  [ columns |-> f.header,
          rows    |-> [ i \in DOMAIN f.rows |->
                          [ c \in Range(f.header) |-> ParseCell(kind(c), f.rows[i][c]) ] ] ]

\* No DataFrame: the script has not reached line 30.
NoData == [ columns |-> << >>, rows |-> << >> ]

\* ----------------------------------------------------------- input files
AllColumns == << "transaction_id" >> \o required_cols \o << "merchant" >>

\* One row of file text.  The five expert scores are e, e+1, ..., e+4.
TextRow(id, fraud, score, level, e) ==
    [ c \in Range(AllColumns) |->
        CASE c = "transaction_id"    -> id
          [] c = "is_fraud"          -> fraud
          [] c = "final_moe_score"   -> score
          [] c = "fraud_risk_level"  -> level
          [] c = "lstm_score"        -> NatToText(e)
          [] c = "transformer_score" -> NatToText(e + 1)
          [] c = "autoencoder_score" -> NatToText(e + 2)
          [] c = "xgb_score"         -> NatToText(e + 3)
          [] c = "ada_score"         -> NatToText(e + 4)
          [] c = "merchant"          -> << "M" >> ]

\* The rows the datasets are built from: identifiers with surrounding
\* whitespace, duplicated after trimming, numeric with a leading zero, and
\* missing; risk levels in every case, padded, and missing; a missing score
\* and a missing label.
RowPool ==
    { TextRow(<< " ", "A" >>, << "0" >>, << "2" >>, << "L", "O", "W" >>, 1),
      TextRow(<< "A" >>,      << "1" >>, << "1" >>, << "h", "i", "g", "h" >>, 2),
      TextRow(<< "0", "7" >>, << "0" >>, << "3" >>, << "M", "e", "d", "i", "u", "m" >>, 3),
      TextRow(<< >>,          << "1" >>, << >>,     << " ", "L", "O", "W" >>, 4),
      TextRow(<< "7" >>,      << "2" >>, << "1" >>, << >>, 5),
      TextRow(<< "A", " " >>, << >>,     << "2" >>, << "H", "I", "G", "H" >>, 6) }

Without(header, S) == SelectSeq(header, LAMBDA c : c \notin S)

\* A table with the given header: each row keeps the header's columns.
MkFile(header, rows) ==
    [ header |-> header,
      rows   |-> [ i \in DOMAIN rows |-> [ c \in Range(header) |-> rows[i][c] ] ] ]

DataSets == UNION { [ 1..n -> RowPool ] : n \in 0..MaxRows }

Headers == { AllColumns, Without(AllColumns, { "transaction_id" }) }

\* Every required column present, with and without transaction_id.
FullFiles == { MkFile(h, rows) : h \in Headers, rows \in DataSets }

OneRow == << TextRow(<< "A" >>, << "1" >>, << "1" >>, << "L", "O", "W" >>, 1) >>

\* Every non-empty subset of the required columns missing.
MissingFiles ==
    { MkFile(Without(h, S), OneRow) :
        h \in Headers, S \in (SUBSET Range(required_cols)) \ { {} } }

\* A header that spells a required column in another case.
CaseFile ==
    [ header |-> << "Is_Fraud" >> \o Without(AllColumns, { "is_fraud", "transaction_id" }),
      rows   |-> << [ c \in { "Is_Fraud" } \cup (Range(AllColumns) \ { "is_fraud", "transaction_id" })
                        |-> IF c = "Is_Fraud" THEN << "1" >> ELSE OneRow[1][c] ] >> ]

\* One row more than the insights sample takes; row i is a row of the pool.
BigRows == SampleSize + 1

BigFile ==
    LET pool == << TextRow(<< " ", "A" >>, << "0" >>, << "2" >>, << "L", "O", "W" >>, 1),
                   TextRow(<< "A" >>,      << "1" >>, << "1" >>, << "h", "i", "g", "h" >>, 2),
                   TextRow(<< "A", " " >>, << "0" >>, << >>,     << "H", "I", "G", "H" >>, 6) >>
    IN  MkFile(Without(AllColumns, { "merchant" }),
               [ i \in 1..BigRows |-> pool[(i % 3) + 1] ])

Files == FullFiles \cup MissingFiles \cup { CaseFile, BigFile, Absent }

\* ------------------------------------------------------------------ state
VARIABLES
    file,         \* the source file beside app.py: a table of text, or Absent
    pc,           \* the block of the script that runs next
    df,           \* the DataFrame df (NoData before line 30)
    loaded,       \* history: df as pd.read_csv returned it at line 30
    missing_cols, \* the list missing_cols of line 46
    options,      \* what the sidebar selectbox offers
    choice,       \* what the selectbox returned: txn_id or txn_index
    txn,          \* the selected row: its index label and its cells
    exc,          \* the exception that ended the run, "" when none
    ui,           \* the elements rendered in this run, in order
    metrics,      \* the values of the three st.metric calls
    expert_df,    \* the frame of the expert bar chart
    level_counts, \* the data of the risk level bar chart
    sampled,      \* history: the index labels .sample() drew
    line_chart,   \* the data of the line chart
    prev          \* history: a finished run, for comparing runs

vars == << file, pc, df, loaded, missing_cols, options, choice, txn, exc, ui,
           metrics, expert_df, level_counts, sampled, line_chart, prev >>

NoChoice == [ some |-> FALSE, id |-> << >>, index |-> 0 ]
IdChoice(t) == [ some |-> TRUE, id |-> t, index |-> 0 ]
IndexChoice(i) == [ some |-> TRUE, id |-> << >>, index |-> i ]

NoRow == [ c \in {} |-> NaN ]
NoTxn == [ label |-> -1, row |-> NoRow ]
NoMetrics == [ score |-> NaN, level |-> << >>, truth |-> "" ]
NoPrev == [ some |-> FALSE, replaced |-> FALSE, file |-> Absent,
            choice |-> NoChoice, outcome |-> << >> ]

\* A fresh run of the script: no name is bound, nothing is rendered.
Fresh ==
    /\ pc = "start"
    /\ df = NoData
    /\ loaded = NoData
    /\ missing_cols = << >>
    /\ options = << >>
    /\ choice = NoChoice
    /\ txn = NoTxn
    /\ exc = ""
    /\ ui = << >>
    /\ metrics = NoMetrics
    /\ expert_df = << >>
    /\ level_counts = {}
    /\ sampled = {}
    /\ line_chart = << >>

Init ==
    /\ file \in Files
    /\ prev = NoPrev
    /\ Fresh

Show(elements) == ui' = ui \o elements

\* app.py:8-18: the page configuration, the title and the introduction.
Header ==
    /\ pc = "start"
    /\ Show(<< "title", "intro" >>)
    /\ pc' = "check_file"
    /\ UNCHANGED << file, df, loaded, missing_cols, options, choice, txn, exc,
                    metrics, expert_df, level_counts, sampled, line_chart, prev >>

\* CheckFile without its st.stop(): the error is shown and the script goes on.
CheckFileNoStop ==
    /\ pc = "check_file"
    /\ IF file = Absent THEN Show(<< "error:file" >>) ELSE UNCHANGED ui
    /\ pc' = "load"
    /\ UNCHANGED << file, df, loaded, missing_cols, options, choice, txn, exc,
                    metrics, expert_df, level_counts, sampled, line_chart, prev >>

\* app.py:26-28: st.error and st.stop() when the file does not exist.
CheckFile ==
    /\ pc = "check_file"
    /\ IF file = Absent
       THEN /\ Show(<< "error:file" >>)
            /\ pc' = "halted"
       ELSE /\ UNCHANGED ui
            /\ pc' = "load"
    /\ UNCHANGED << file, df, loaded, missing_cols, options, choice, txn, exc,
                    metrics, expert_df, level_counts, sampled, line_chart, prev >>

\* LoadData behind a cache that is never invalidated: the table of the file
\* of the remembered run is used again.
LoadDataStale ==
    /\ pc = "load"
    /\ df' = ReadCsv(IF prev.some THEN prev.file ELSE file)
    /\ loaded' = df'
    /\ pc' = "check_cols"
    /\ UNCHANGED << file, missing_cols, options, choice, txn, exc, ui,
                    metrics, expert_df, level_counts, sampled, line_chart, prev >>

\* app.py:30.
LoadData ==
    /\ pc = "load"
    /\ df' = ReadCsv(file)
    /\ loaded' = df'
    /\ pc' = "check_cols"
    /\ UNCHANGED << file, missing_cols, options, choice, txn, exc, ui,
                    metrics, expert_df, level_counts, sampled, line_chart, prev >>

\* MissingCols that stops at the first missing column.
MissingColsFirst(frame) ==
    LET all == SelectSeq(required_cols, LAMBDA c : c \notin Range(frame.columns))
    IN  IF all = << >> THEN << >> ELSE << all[1] >>

\* app.py:46.
MissingCols(frame) ==
    SelectSeq(required_cols, LAMBDA c : c \notin Range(frame.columns))

\* CheckColumns without its st.stop().
CheckColumnsNoStop ==
    /\ pc = "check_cols"
    /\ missing_cols' = MissingCols(df)
    /\ IF missing_cols' # << >> THEN Show(<< "error:columns" >>) ELSE UNCHANGED ui
    /\ pc' = "sidebar"
    /\ UNCHANGED << file, df, loaded, options, choice, txn, exc,
                    metrics, expert_df, level_counts, sampled, line_chart, prev >>

\* app.py:46-49.
CheckColumns ==
    /\ pc = "check_cols"
    /\ missing_cols' = MissingCols(df)
    /\ IF missing_cols' # << >>
       THEN /\ Show(<< "error:columns" >>)
            /\ pc' = "halted"
       ELSE /\ UNCHANGED ui
            /\ pc' = "sidebar"
    /\ UNCHANGED << file, df, loaded, options, choice, txn, exc,
                    metrics, expert_df, level_counts, sampled, line_chart, prev >>

\* -------------------------------------------------------------- selector
HasId(frame) == "transaction_id" \in Range(frame.columns)

\* Normalise applied to every text column instead of transaction_id alone.
NormaliseAll(frame) ==
    [ frame EXCEPT !.rows =
        [ i \in DOMAIN frame.rows |->
            [ c \in DOMAIN frame.rows[i] |->
                IF c = "transaction_id" \/ frame.rows[i][c].k = "str"
                THEN StrCell(Strip(ToStr(frame.rows[i][c])))
                ELSE frame.rows[i][c] ] ] ]

\* app.py:57-61: the transaction_id column replaced, in df itself, by its
\* values as stripped strings.
Normalise(frame) ==
    [ frame EXCEPT !.rows =
        [ i \in DOMAIN frame.rows |->
            [ frame.rows[i] EXCEPT !["transaction_id"] = StrCell(Strip(ToStr(@))) ] ] ]

\* Series.unique(): the distinct values in order of first occurrence.
Unique(seq) ==
    LET first == { i \in DOMAIN seq : \A j \in 1..(i - 1) : seq[j] # seq[i] }
    IN  [ k \in 1..Cardinality(first) |->
            seq[CHOOSE i \in first : Cardinality({ j \in first : j <= i }) = k] ]

\* app.py:65, df["transaction_id"].unique().tolist().
IdOptions(frame) ==
    LET ids == Unique([ i \in DOMAIN frame.rows |-> frame.rows[i]["transaction_id"].s ])
    IN  [ k \in DOMAIN ids |-> IdChoice(ids[k]) ]

\* app.py:78, df.index.tolist(): the labels 0 .. len(df)-1 of the RangeIndex.
IndexOptions(frame) == [ k \in DOMAIN frame.rows |-> IndexChoice(k - 1) ]

\* st.sidebar.selectbox: one of the options offered, None when there is none.
SelectBox(opts) == IF Len(opts) = 0 THEN { NoChoice } ELSE Range(opts)

\* Filter against the identifiers as read, stringified but not stripped.
FilterRaw(frame, c) ==
    { i \in DOMAIN frame.rows :
        c.some /\ ToStr(loaded.rows[i]["transaction_id"]) = c.id }

\* app.py:68, df[df["transaction_id"] == txn_id]: the positions of the rows
\* kept.  No value of the column equals None.
Filter(frame, c) ==
    { i \in DOMAIN frame.rows : c.some /\ frame.rows[i]["transaction_id"].s = c.id }

\* Iloc0 taking the last row kept, filtered.iloc[-1].
IlocLast(frame, kept) ==
    LET i == CHOOSE i \in kept : \A j \in kept : j <= i
    IN  [ label |-> i - 1, row |-> frame.rows[i] ]

\* app.py:74, filtered.iloc[0].
Iloc0(frame, kept) ==
    LET i == CHOOSE i \in kept : \A j \in kept : i <= j
    IN  [ label |-> i - 1, row |-> frame.rows[i] ]

\* app.py:54-74: the selection by transaction_id.
SelectById ==
    /\ pc = "sidebar"
    /\ HasId(df)
    /\ df' = Normalise(df)
    /\ options' = IdOptions(df')
    /\ \E c \in SelectBox(options') :
         /\ choice' = c
         /\ LET filtered == Filter(df', c)
            IN  IF filtered = {}
                THEN /\ Show(<< "sidebar_header", "selectbox", "error:not_found" >>)
                     /\ pc' = "halted"
                     /\ UNCHANGED txn
                ELSE /\ Show(<< "sidebar_header", "selectbox" >>)
                     /\ txn' = Iloc0(df', filtered)
                     /\ pc' = "decision"
    /\ UNCHANGED << file, loaded, missing_cols, exc,
                    metrics, expert_df, level_counts, sampled, line_chart, prev >>

\* app.py:80, df.loc[txn_index]: the row of that label; None is no label.
Loc(frame, c) ==
    IF c.some /\ c.index + 1 \in DOMAIN frame.rows
    THEN [ label |-> c.index, row |-> frame.rows[c.index + 1] ]
    ELSE NoTxn

\* app.py:54, 76-80: the selection by row index.  df.loc[None] raises
\* KeyError, which ends the run with Streamlit's exception box.
SelectByIndex ==
    /\ pc = "sidebar"
    /\ ~HasId(df)
    /\ options' = IndexOptions(df)
    /\ \E c \in SelectBox(options') :
         /\ choice' = c
         /\ txn' = Loc(df, c)
         /\ IF txn'.label = -1
            THEN /\ Show(<< "sidebar_header", "selectbox", "exception" >>)
                 /\ exc' = "KeyError"
                 /\ pc' = "crashed"
            ELSE /\ Show(<< "sidebar_header", "selectbox" >>)
                 /\ exc' = exc
                 /\ pc' = "decision"
    /\ UNCHANGED << file, df, loaded, missing_cols,
                    metrics, expert_df, level_counts, sampled, line_chart, prev >>

\* -------------------------------------------------------------- renderer
\* Whether float(x) and int(x) succeed.  int(nan) raises ValueError.
CanFloat(c) == c.k # "str" \/ IsIntText(Strip(c.s))
CanInt(c)   == c.k \in { "int", "float" } \/ (c.k = "str" /\ IsIntText(Strip(c.s)))

\* round(float(x), 3); the numbers of the model are whole.
Round3(c) == IF c.k = "nan" THEN NaN
             ELSE FloatCell(IF c.k = "str" THEN TextToNat(Strip(c.s)) ELSE c.n)

\* int(x).
IntOf(c) == IF c.k = "str" THEN TextToNat(Strip(c.s)) ELSE c.n

\* app.py:101.
Truth(c) == IF IntOf(c) = 1 THEN "Yes" ELSE "No"

\* app.py:85-102: the three metrics, left to right; a failed conversion ends
\* the run with the metrics before it already shown.
FinalDecision ==
    /\ pc = "decision"
    /\ LET score == txn.row["final_moe_score"]
           fraud == txn.row["is_fraud"]
           level == ToStr(txn.row["fraud_risk_level"])
       IN  IF ~CanFloat(score)
           THEN /\ Show(<< "subheader:decision", "exception" >>)
                /\ metrics' = metrics
                /\ exc' = "ValueError"
                /\ pc' = "crashed"
           ELSE IF ~CanInt(fraud)
           THEN /\ Show(<< "subheader:decision", "metric:score", "metric:level", "exception" >>)
                /\ metrics' = [ score |-> Round3(score), level |-> level, truth |-> "" ]
                /\ exc' = "ValueError"
                /\ pc' = "crashed"
           ELSE /\ Show(<< "subheader:decision", "metric:score", "metric:level", "metric:truth" >>)
                /\ metrics' = [ score |-> Round3(score), level |-> level, truth |-> Truth(fraud) ]
                /\ exc' = exc
                /\ pc' = "status"
    /\ UNCHANGED << file, df, loaded, missing_cols, options, choice, txn,
                    expert_df, level_counts, sampled, line_chart, prev >>

\* app.py:111-118.
Banner(risk_level) ==
    IF risk_level = << "L", "O", "W" >> THEN "success"
    ELSE IF risk_level = << "M", "E", "D", "I", "U", "M" >> THEN "warning"
    ELSE IF risk_level = << "H", "I", "G", "H" >> THEN "error:blocked"
    ELSE "info"

\* RiskLevel that also strips the text.
RiskLevelStripped(row) == ToUpper(Strip(ToStr(row["fraud_risk_level"])))

\* app.py:107.
RiskLevel(row) == ToUpper(ToStr(row["fraud_risk_level"]))

\* app.py:107-118.
StatusMessage ==
    /\ pc = "status"
    /\ Show(<< "subheader:status", Banner(RiskLevel(txn.row)) >>)
    /\ pc' = "experts"
    /\ UNCHANGED << file, df, loaded, missing_cols, options, choice, txn, exc,
                    metrics, expert_df, level_counts, sampled, line_chart, prev >>

\* app.py:125-137.
ExpertFrame(row) ==
    << << "LSTM (Behavioral)", row["lstm_score"] >>,
       << "Transformer (Feature Interaction)", row["transformer_score"] >>,
       << "Autoencoder (Anomaly)", row["autoencoder_score"] >>,
       << "XGBoost (Tabular)", row["xgb_score"] >>,
       << "AdaBoost (Ensemble)", row["ada_score"] >> >>

\* app.py:123-152: the expert chart and the explanation.
ExpertScores ==
    /\ pc = "experts"
    /\ expert_df' = ExpertFrame(txn.row)
    /\ Show(<< "subheader:experts", "bar_chart:experts",
               "subheader:explanation", "markdown:explanation" >>)
    /\ pc' = "insights"
    /\ UNCHANGED << file, df, loaded, missing_cols, options, choice, txn, exc,
                    metrics, level_counts, sampled, line_chart, prev >>

\* The column col of frame as a Series: index label -> cell.
Column(frame, col) == [ l \in 0..(Len(frame.rows) - 1) |-> frame.rows[l + 1][col] ]

\* app.py:159, Series.value_counts(): the count of each value that is not NaN.
ValueCounts(series) ==
    LET given == { l \in DOMAIN series : series[l].k # "nan" }
    IN  { [ value |-> v, count |-> Cardinality({ l \in given : series[l] = v }) ] :
            v \in { series[l] : l \in given } }

\* Sample that returns the whole series.
SampleAll(labels, n) == { labels }

\* Series.sample(n): n distinct labels of the series, any of them.
Sample(labels, n) ==
    IF n = Cardinality(labels) THEN { labels }
    ELSE IF n + 1 = Cardinality(labels) THEN { labels \ { l } : l \in labels }
    ELSE { S \in SUBSET labels : Cardinality(S) = n }

\* Series.sort_values().reset_index(drop=True): the values in ascending
\* order, NaN last, under a fresh RangeIndex.
SortValues(series) ==
    LET given == { l \in DOMAIN series : series[l].k # "nan" }
        m     == Cardinality(given)
        runs  == { [ cell |-> c,
                     lo   |-> Cardinality({ l \in given : series[l].n < c.n }),
                     hi   |-> Cardinality({ l \in given : series[l].n <= c.n }) ] :
                   c \in { series[l] : l \in given } }
    IN  [ k \in 1..Cardinality(DOMAIN series) |->
            IF k > m THEN NaN
            ELSE (CHOOSE r \in runs : r.lo < k /\ k <= r.hi).cell ]

Min(a, b) == IF a <= b THEN a ELSE b

\* app.py:157-176: the two charts of the expander, and the footer.
Insights ==
    /\ pc = "insights"
    /\ level_counts' = ValueCounts(Column(df, "fraud_risk_level"))
    /\ LET scores == Column(df, "final_moe_score")
       IN  \E S \in Sample(DOMAIN scores, Min(SampleSize, Len(df.rows))) :
             /\ sampled' = S
             /\ line_chart' = SortValues([ l \in S |-> scores[l] ])
    /\ Show(<< "expander:insights", "bar_chart:levels", "line_chart", "footer" >>)
    /\ pc' = "done"
    /\ UNCHANGED << file, df, loaded, missing_cols, options, choice, txn, exc,
                    metrics, expert_df, prev >>

\* A user interaction reruns the script from the top with nothing kept.
Rerun ==
    /\ pc \in { "done", "halted", "crashed" }
    /\ pc' = "start"
    /\ df' = NoData
    /\ loaded' = NoData
    /\ missing_cols' = << >>
    /\ options' = << >>
    /\ choice' = NoChoice
    /\ txn' = NoTxn
    /\ exc' = ""
    /\ ui' = << >>
    /\ metrics' = NoMetrics
    /\ expert_df' = << >>
    /\ level_counts' = {}
    /\ sampled' = {}
    /\ line_chart' = << >>
    /\ UNCHANGED << file, prev >>

Next ==
    \/ Header
    \/ CheckFile
    \/ LoadData
    \/ CheckColumns
    \/ SelectById
    \/ SelectByIndex
    \/ FinalDecision
    \/ StatusMessage
    \/ ExpertScores
    \/ Insights
    \/ Rerun

Spec == Init /\ [][Next]_vars

\* ----------------------------------------------- runs over a changing file
\* Longest dataset of the files that replace one another.
FreshRows == 2

FreshPool ==
    { TextRow(<< " ", "A" >>, << "0" >>, << "2" >>, << "L", "O", "W" >>, 1),
      TextRow(<< "B" >>,      << "1" >>, << "1" >>, << "M", "E", "D", "I", "U", "M" >>, 2),
      TextRow(<< >>,          << >>,     << "3" >>, << "h", "i", "g", "h" >>, 3) }

FreshFiles ==
    { MkFile(h, rows) : h \in Headers, rows \in UNION { [ 1..n -> FreshPool ] : n \in 0..FreshRows } }
      \cup { CaseFile, Absent }

Terminal == { "done", "halted", "crashed" }

\* What a finished run showed for its selection: how it ended, the elements
\* rendered (the fatal error or the status banner among them), the missing
\* columns reported, the record selected and its metrics.
Outcome == << pc, exc, ui, missing_cols, txn, metrics >>

InitFresh ==
    /\ file \in FreshFiles
    /\ prev = NoPrev
    /\ Fresh

\* History: keep the finished run to compare later runs with it.
Remember ==
    /\ pc \in Terminal
    /\ prev' = [ some |-> TRUE, replaced |-> FALSE, file |-> file,
                 choice |-> choice, outcome |-> Outcome ]
    /\ UNCHANGED << file, pc, df, loaded, missing_cols, options, choice, txn, exc, ui,
                    metrics, expert_df, level_counts, sampled, line_chart >>

\* Before a run starts the file is replaced, removed or created.
ReplaceFile ==
    /\ pc = "start"
    /\ \E f \in FreshFiles \ { file } : file' = f
    /\ prev' = IF prev.some THEN [ prev EXCEPT !.replaced = TRUE ] ELSE prev
    /\ UNCHANGED << pc, df, loaded, missing_cols, options, choice, txn, exc, ui,
                    metrics, expert_df, level_counts, sampled, line_chart >>

NextFresh ==
    \/ Header
    \/ CheckFile
    \/ LoadData
    \/ CheckColumns
    \/ SelectById
    \/ SelectByIndex
    \/ FinalDecision
    \/ StatusMessage
    \/ ExpertScores
    \/ Insights
    \/ Rerun
    \/ Remember
    \/ ReplaceFile

SpecFresh == InitFresh /\ [][NextFresh]_vars

\* ----------------------------------------------------------------- claims
Last(seq) == seq[Len(seq)]

Shown(e) == e \in Range(ui)

\* The script is past line 49: the file was read and its columns checked.
ColumnsChecked == loaded # NoData /\ pc # "check_cols"

\* The script is past the selectbox of line 63 or 76.
Selected == Shown("selectbox")

\* C1: when the header of the file lacks the set S of required columns, the
\* list the Loader reports holds exactly the names of S, each once; the run
\* halts on the column check when S is not empty, and does not when it is.
C1_MissingListExact ==
    ColumnsChecked =>
        LET S == Range(required_cols) \ Range(file.header)
        IN  /\ Range(missing_cols) = S
            /\ Len(missing_cols) = Cardinality(S)
            /\ S # {} => pc = "halted" /\ Last(ui) = "error:columns"
            /\ S = {} => ~Shown("error:columns")

\* C1 witness: a halt that reports several columns, the first of the
\* required list not among them.
C1_Witness ==
    /\ pc = "halted"
    /\ Len(missing_cols) >= 3
    /\ "is_fraud" \in Range(file.header)
    /\ "ada_score" \notin Range(file.header)

\* The identifier of row i of the dataset as read: stringified, then trimmed.
Ident(i) == Strip(ToStr(loaded.rows[i]["transaction_id"]))

Matches == { i \in DOMAIN loaded.rows : choice.some /\ Ident(i) = choice.id }

\* C2: with a transaction_id column, a chosen identifier that some row has
\* selects the first such row in dataset order; one that no row has halts
\* the run with the not-found error and selects nothing.
C2_FirstMatchOrNotFound ==
    (Selected /\ HasId(loaded)) =>
        IF Matches = {}
        THEN pc = "halted" /\ Last(ui) = "error:not_found" /\ txn = NoTxn
        ELSE /\ ~Shown("error:not_found")
             /\ txn.label + 1 \in Matches
             /\ \A j \in Matches : txn.label + 1 <= j
             /\ txn.row = df.rows[txn.label + 1]

\* C2 witness: two rows share the chosen identifier once trimmed, the first
\* of them is not the first row of the dataset, and its identifier in the
\* file is not the chosen text.
C2_Witness ==
    /\ pc = "done"
    /\ HasId(loaded)
    /\ Cardinality(Matches) >= 2
    /\ txn.label = 1
    /\ ToStr(loaded.rows[2]["transaction_id"]) # choice.id

Banners == { "success", "warning", "error:blocked", "info" }

\* C3: the banner of a run is fixed by the uppercased fraud_risk_level of the
\* selected record of the dataset: LOW, MEDIUM and HIGH have their banners,
\* every other text (padded, missing) the informational one; one banner is shown.
C3_BannerOfLevel ==
    pc \in { "experts", "insights", "done" } =>
        LET level == ToUpper(ToStr(loaded.rows[txn.label + 1]["fraud_risk_level"]))
            shown == SelectSeq(ui, LAMBDA e : e \in Banners)
        IN  /\ Len(shown) = 1
            /\ level = << "L", "O", "W" >> <=> shown[1] = "success"
            /\ level = << "M", "E", "D", "I", "U", "M" >> <=> shown[1] = "warning"
            /\ level = << "H", "I", "G", "H" >> <=> shown[1] = "error:blocked"
            /\ level \notin { << "L", "O", "W" >>, << "M", "E", "D", "I", "U", "M" >>,
                              << "H", "I", "G", "H" >> } <=> shown[1] = "info"

\* C3 witness: a finished run whose record has the level " LOW", padded,
\* and shows the informational banner.
C3_Witness ==
    /\ pc = "done"
    /\ loaded.rows[txn.label + 1]["fraud_risk_level"] = StrCell(<< " ", "L", "O", "W" >>)
    /\ Shown("info")

Fatal == { "error:file", "error:columns", "error:not_found" }

\* The block of the script that renders an element.
Block(e) ==
    CASE e \in { "title", "intro" } -> 1
      [] e = "error:file" -> 2
      [] e = "error:columns" -> 3
      [] e \in { "sidebar_header", "selectbox", "error:not_found" } -> 4
      [] e \in { "subheader:decision", "metric:score", "metric:level", "metric:truth" } -> 5
      [] e \in { "subheader:status" } \cup Banners -> 6
      [] OTHER -> 7

\* C4: a fatal error ends the run where it is raised: it is the last element
\* rendered, the only error message of the run, and no element of a later
\* block of the script is rendered; a halted run shows one.
C4_FatalStopsRun ==
    /\ pc = "halted" => Last(ui) \in Fatal
    /\ \A i \in DOMAIN ui :
         ui[i] \in Fatal =>
            /\ pc = "halted"
            /\ i = Len(ui)
            /\ \A j \in DOMAIN ui : j # i => ui[j] \notin Fatal \cup { "error:blocked", "exception" }
            /\ \A j \in DOMAIN ui : Block(ui[j]) <= Block(ui[i])
    /\ pc = "halted" => metrics = NoMetrics /\ expert_df = << >> /\ line_chart = << >>

\* C4 witness: a run halted by the column check on a file that has a
\* transaction_id column, which the selector would have used.
C4_Witness ==
    /\ pc = "halted"
    /\ Last(ui) = "error:columns"
    /\ "transaction_id" \in Range(file.header)

\* C5 as stated: with the file absent the run shows the fatal error and no
\* other element, the title and the introduction included, and reads nothing.
C5_NoOtherElement ==
    (file = Absent /\ pc = "halted") =>
        /\ ui = << "error:file" >>
        /\ df = NoData

\* C5 as amended: with the file absent the run shows the title, the
\* introduction and then the fatal error naming the file, halts there with
\* no element of a later block rendered, and never reads the file.
C5_HaltsAfterHeader ==
    file = Absent =>
        /\ pc \in { "start", "check_file", "halted" }
        /\ df = NoData /\ loaded = NoData
        /\ pc = "halted" => ui = << "title", "intro", "error:file" >>
        /\ pc # "halted" => ~Shown("error:file")

\* C5 witness: the run halted on the absent file, the error shown.
C5_Witness ==
    /\ file = Absent
    /\ pc = "halted"
    /\ Last(ui) = "error:file"

\* C6: past the Loader, in either selection mode and for every dataset, the
\* selection is one record of the dataset, or none; none ends the run with
\* the not-found error, never with an unhandled failure.
C6_ZeroOrOneRecord ==
    Selected =>
        IF txn = NoTxn
        THEN pc = "halted" /\ Last(ui) = "error:not_found" /\ exc = ""
        ELSE /\ txn.label + 1 \in DOMAIN df.rows
             /\ txn.row = df.rows[txn.label + 1]

\* NaN sorts after every number.
Leq(a, b) == b.k = "nan" \/ (a.k # "nan" /\ a.n <= b.n)

\* How many places of the sequence hold the cell.
Count(seq, c) == Cardinality({ k \in DOMAIN seq : seq[k] = c })

\* C7: the line chart plots the final_moe_score of min(1000, N) distinct rows
\* of the N-row dataset, in ascending order; all the rows when N <= 1000.
C7_SampleSorted ==
    pc = "done" =>
        LET N      == Len(loaded.rows)
            scores == [ l \in sampled |-> loaded.rows[l + 1]["final_moe_score"] ]
        IN  /\ sampled \subseteq 0..(N - 1)
            /\ Cardinality(sampled) = Min(1000, N)
            /\ Len(line_chart) = Min(1000, N)
            /\ \A k \in 1..(Len(line_chart) - 1) : Leq(line_chart[k], line_chart[k + 1])
            /\ \A c \in Range(line_chart) \cup Range(scores) :
                 Count(line_chart, c) = Cardinality({ l \in sampled : scores[l] = c })
            /\ N <= 1000 => sampled = 0..(N - 1)

\* C7 witness: a dataset of more than 1000 rows, 1000 of them plotted, the
\* row left out one with a score.
C7_Witness ==
    /\ pc = "done"
    /\ Len(loaded.rows) > 1000
    /\ Len(line_chart) = 1000
    /\ \E l \in (0..(Len(loaded.rows) - 1)) \ sampled :
         loaded.rows[l + 1]["final_moe_score"].k # "nan"

\* C8 as stated: once loaded, the DataFrame keeps every value, the row
\* order and the columns.
C8_DatasetUnchanged == loaded # NoData => df = loaded

\* The DataFrame against the one read: the same columns and rows, every
\* value outside transaction_id the same, and each transaction_id, once the
\* Selector has run, the trimmed string form of the one read.
C8_FrameKept ==
    loaded # NoData =>
        /\ df.columns = loaded.columns
        /\ Len(df.rows) = Len(loaded.rows)
        /\ \A i \in DOMAIN loaded.rows : \A c \in Range(loaded.columns) :
             IF c = "transaction_id" /\ Selected
             THEN df.rows[i][c] = StrCell(Strip(ToStr(loaded.rows[i][c])))
             ELSE df.rows[i][c] = loaded.rows[i][c]

\* C8 as amended: once loaded, the DataFrame keeps its columns, its row
\* order and every value outside transaction_id, and no step writes the
\* file; the Selector replaces each transaction_id of the DataFrame by its
\* trimmed string form.
C8_OnlyIdNormalised == []C8_FrameKept /\ [][file' = file]_vars

\* C8 witness: a finished run whose DataFrame is no longer the one read.
C8_Witness ==
    /\ pc = "done"
    /\ df # loaded
    /\ \E i \in DOMAIN loaded.rows : loaded.rows[i]["transaction_id"].k = "nan"

\* C9: a finished run with the file contents and the selection of an
\* earlier finished run has its outcome, whatever ran in between.
C9_SameInputsSameOutcome ==
    (pc \in Terminal /\ prev.some /\ prev.file = file /\ prev.choice = choice) =>
        prev.outcome = Outcome

\* C9 witness: a finished run that repeats the file and the selection of a
\* remembered run, the file replaced in between.
C9_Witness ==
    /\ pc = "done"
    /\ prev.some /\ prev.replaced
    /\ prev.file = file /\ prev.choice = choice

\* C10: with a transaction_id column and at least one row, the value chosen
\* is the identifier of a row and the not-found halt does not happen.
C10_NotFoundOnlyWhenEmpty ==
    (Selected /\ HasId(loaded)) =>
        /\ Len(loaded.rows) >= 1 =>
             /\ choice \in Range(options)
             /\ \E i \in DOMAIN loaded.rows : Ident(i) = choice.id
             /\ ~Shown("error:not_found")
             /\ txn # NoTxn
        /\ Shown("error:not_found") => Len(loaded.rows) = 0

\* C10 witness: the identifier chosen is "nan", the string form of the
\* missing identifier of the row selected.
C10_Witness ==
    /\ pc = "done"
    /\ HasId(loaded)
    /\ choice.id = << "n", "a", "n" >>
    /\ loaded.rows[txn.label + 1]["transaction_id"] = NaN

====
